---- MODULE Spec2Model ----
(***************************************************************************)
(* The Express API gateway of the repository (src/unnamed/part_000): the   *)
(* middleware stack in registration order, the four proxy mounts with      *)
(* their pathRewrite and onError handlers, the /api fallback, the          *)
(* development static/SPA handlers, the global error handler and the 404   *)
(* handler, together with the per-IP counter of the rate limiter.          *)
(*                                                                         *)
(* A URL is a sequence of tokens ("/" and words), so that the prefix       *)
(* regular expressions of pathRewrite (character level) and the mount      *)
(* matching of Express (segment level) are two different computations.     *)
(*                                                                         *)
(* Beside the gateway: the pre-commit size check                           *)
(* (src/scripts/git-hygiene/check-file-size.sh), the startup formation     *)
(* page and the home page (src/frontend/src/app/startup-formation/         *)
(* page.tsx) and the workflow chart (src/unnamed/part_005). Each is a      *)
(* program of its own with its own specification; while one runs, the      *)
(* state of the others stays as it is.                                     *)
(***************************************************************************)
EXTENDS Integers, Sequences, FiniteSets, TLC

VARIABLES
  reqs,         \* the request of each connection being served
  hits,         \* the limiter's store: the count of each IP in its window
  arrivals,     \* requests received so far
  proc,         \* the process: "running" or "crashed"
  NODE_ENV,     \* process.env.NODE_ENV
  publicIndex,  \* whether public/index.html exists
  workload,     \* which requests the clients send: "any", "core" or "twins"
  passed,       \* requests of each IP that the limiter let pass in its window
  uptime,       \* process.uptime(), in ticks of the clock
  signal,       \* the termination signal delivered to the process, or "none"
  sh,           \* a run of check-file-size.sh
  page,         \* the StartupFormationPage component
  home,         \* the Home component
  viz           \* the PlotlyWorkflowVisualization component

\* the gateway's variables and those of the other programs
gw ==
  <<reqs, hits, arrivals, proc, NODE_ENV, publicIndex, workload, passed,
    uptime, signal>>

vars ==
  <<reqs, hits, arrivals, proc, NODE_ENV, publicIndex, workload, passed,
    uptime, signal, sh, page, home, viz>>

(* ------------------------------ bounds -------------------------------- *)

\* requests the clients send in one run
MaxArrivals == 3

\* ticks of the clock in one run
MaxUptime == 1

(* ------------------------- program constants -------------------------- *)

\* rateLimit({ max: 1000 })
max == 1000

IPs == {"ip1", "ip2"}

\* const SERVICES = { ... } with the hardcoded fallbacks
SERVICES ==
  [ startupFormation  |-> "http://startup-formation:8000",
    legalCompliance   |-> "http://legal-compliance:8000",
    contentStrategy   |-> "http://content-strategy:8000",
    businessFormation |-> "http://business-formation:8000" ]

\* Object.keys(SERVICES): insertion order
ServiceKeys ==
  <<"startupFormation", "legalCompliance", "contentStrategy", "businessFormation">>

(* ------------------------------- URLs --------------------------------- *)

U_health      == <<"/", "health">>
U_services    == <<"/", "api", "/", "services">>
U_startup_x   == <<"/", "api", "/", "v1", "/", "startup", "/", "x">>
U_legal_audit == <<"/", "api", "/", "v1", "/", "legal", "/", "audit">>
U_content_q   == <<"/", "api", "/", "v1", "/", "content", "/", "x", "?", "q=1">>
U_business_x  == <<"/", "api", "/", "v1", "/", "business", "/", "x">>
U_startupx    == <<"/", "api", "/", "v1", "/", "startup", "x">>
U_startup_legal == <<"/", "api", "/", "v1", "/", "startup", "/", "legal">>
U_legalese_1  == <<"/", "api", "/", "v1", "/", "legal", "ese", "/", "1">>
U_unknown     == <<"/", "api", "/", "unknown">>
U_api_esc     == <<"/", "api", "/", "%E0">>
U_api         == <<"/", "api">>
U_other       == <<"/", "other">>
U_esc         == <<"/", "%E0">>

\* a token that decodeURIComponent rejects (a truncated percent escape)
Malformed == {"%E0"}

StartsWith(s, p) ==
  /\ Len(s) >= Len(p)
  /\ \A i \in 1..Len(p) : s[i] = p[i]

Drop(s, n) == [i \in 1..(Len(s) - n) |-> s[i + n]]

\* index of the first "?" of the URL, or Len + 1
RECURSIVE QueryAt(_, _)
QueryAt(url, i) ==
  IF i > Len(url) THEN i
  ELSE IF url[i] = "?" THEN i ELSE QueryAt(url, i + 1)

\* parseurl(req).pathname: the URL up to the query string
Pathname(url) == SubSeq(url, 1, QueryAt(url, 1) - 1)

\* decodeURIComponent succeeds on the string
Decodable(s) == \A i \in 1..Len(s) : s[i] \notin Malformed

(* ------------------------- requests and errors ------------------------ *)

NoErr == [msg |-> "none", status |-> 0]
NoUp  == [target |-> "none"]

\* the Authorization header as authHeader.split(' ') sees it; <<>> is "absent"
AuthHeaders ==
  { <<>>, <<"Bearer">>, <<"Bearer", "">>, <<"Bearer", "tok_valid">>,
    <<"Bearer", "tok_expired">>, <<"Bearer", "tok_malformed">>,
    <<"Bearer", "tok_badsig">> }

BadTokens == {"tok_expired", "tok_malformed", "tok_badsig"}

\* request bodies: none, well-formed JSON, malformed JSON, urlencoded form,
\* text/plain (a type neither body parser reads)
Bodies == {"none", "json", "badjson", "form", "text"}

Idle ==
  [ st |-> "idle", method |-> "GET", url |-> <<>>, body |-> "none",
    authorization |-> <<>>, ip |-> "ip1",
    drained |-> FALSE, totalHits |-> 0, user |-> "none", up |-> NoUp,
    route |-> "none", res |-> <<>>, headersSent |-> FALSE, log |-> <<>>,
    trace |-> <<>>, raised |-> NoErr, uncaught |-> NoErr ]

\* the headers of the inbound request
Headers(r) ==
  [ host |-> "gateway", authorization |-> r.authorization,
    contentType |-> r.body ]

Visit(r, stage) == [r EXCEPT !.trace = Append(@, stage)]

Visited(r, stage) == \E k \in 1..Len(r.trace) : r.trace[k] = stage

\* logger.<level>(msg, { error, url }); error is "none" where the call logs none
Log(r, level, msg, error, url) ==
  [r EXCEPT !.log = Append(@, [level |-> level, msg |-> msg, error |-> error,
                               url |-> url, method |-> r.method, ip |-> r.ip])]

\* the outcome of one middleware: k is "end" (a response was produced or the
\* request was handed to the proxy), "next" (next()), or "error" (next(err)
\* or a throw, which Express turns into next(err))
End(r)       == [r |-> r, k |-> "end", err |-> NoErr]
Next_(r)     == [r |-> r, k |-> "next", err |-> NoErr]
\* r.raised keeps the first error raised while the request was handled
Raise(r, err) == IF r.raised = NoErr THEN [r EXCEPT !.raised = err] ELSE r
Fail(r, err) == [r |-> Raise(r, err), k |-> "error", err |-> err]

\* res.status(status).json(body): setting a header after the headers were
\* sent throws ERR_HTTP_HEADERS_SENT
ResJson(r, status, body) ==
  IF r.headersSent
  THEN Fail(r, [msg |-> "ERR_HTTP_HEADERS_SENT", status |-> 0])
  ELSE End([r EXCEPT !.res = Append(@, [status |-> status, body |-> body]),
                     !.headersSent = TRUE,
                     !.st = "done"])

(* --------------------------- the middleware --------------------------- *)

\* app.use(express.json(...)); app.use(express.urlencoded(...)): a body of a
\* type they accept is read from the request stream to its end and parsed;
\* a body that does not parse is passed on as next(err) with status 400
BodyParsers(r) ==
  LET v == Visit(r, "bodyParsers") IN
  IF r.body \in {"json", "form"} THEN Next_([v EXCEPT !.drained = TRUE])
  ELSE IF r.body = "badjson"
  THEN Fail([v EXCEPT !.drained = TRUE],
            [msg |-> "SyntaxError: Unexpected token", status |-> 400])
  ELSE Next_(v)

\* the limiter's decision on the count the store returned for the key
LimitReached(totalHits) == totalHits > max

\* mutant: the increment is lost, the store keeps the count it had
Limiter_LostIncrement(r, count) ==
  LET v == [Visit(r, "limiter") EXCEPT !.totalHits = count] IN
  IF LimitReached(count)
  THEN ResJson(v, 429,
         [error |-> "Too many requests from this IP, please try again later."])
  ELSE Next_(v)

\* mutant: requests to /health are skipped, neither counted nor limited
Limiter_SkipsHealth(r, count) ==
  LET v == [Visit(r, "limiter") EXCEPT !.totalHits = count + 1] IN
  IF Pathname(r.url) = U_health THEN Next_(Visit(r, "limiter"))
  ELSE IF LimitReached(count + 1)
  THEN ResJson(v, 429,
         [error |-> "Too many requests from this IP, please try again later."])
  ELSE Next_(v)

\* mutant: the limiter answers 429 and calls next() all the same
Limiter_AnswersAndContinues(r, count) ==
  LET v == [Visit(r, "limiter") EXCEPT !.totalHits = count + 1] IN
  IF LimitReached(count + 1)
  THEN Next_(ResJson(v, 429,
         [error |-> "Too many requests from this IP, please try again later."]).r)
  ELSE Next_(v)

\* app.use(limiter): increment the counter of req.ip, answer 429 with the
\* configured message when the count exceeds max, otherwise next()
Limiter(r, count) ==
  LET v == [Visit(r, "limiter") EXCEPT !.totalHits = count + 1] IN
  IF LimitReached(count + 1)
  THEN ResJson(v, 429,
         [error |-> "Too many requests from this IP, please try again later."])
  ELSE Next_(v)

\* the request logging middleware
RequestLogger(r) ==
  Next_(Log(Visit(r, "logger"), "info", "Incoming request", "none", r.url))

\* jwt.verify(token, secret, callback)
JwtVerify(token) ==
  IF token = "tok_valid" THEN [err |-> "none", user |-> "claims"]
  ELSE [err |-> "JsonWebTokenError", user |-> "none"]

\* const token = authHeader && authHeader.split(' ')[1]; "" stands for a
\* falsy token (undefined or the empty string)
Token(authHeader) == IF Len(authHeader) >= 2 THEN authHeader[2] ELSE ""

\* mutant: a token that jwt.verify rejects is answered 403
authenticateToken_Rejects(r) ==
  LET v     == Visit(r, "authenticateToken")
      token == Token(r.authorization)
      jv    == JwtVerify(token)
  IN IF token = "" THEN Next_(v)
     ELSE IF jv.err # "none"
          THEN ResJson(Log(v, "warn", "Invalid token", jv.err, r.url),
                       403, [error |-> "FORBIDDEN"])
          ELSE Next_([v EXCEPT !.user = jv.user])

\* mutant: the claims of a token are attached whether or not it verifies
authenticateToken_Decodes(r) ==
  LET v     == Visit(r, "authenticateToken")
      token == Token(r.authorization)
      jv    == JwtVerify(token)
  IN IF token = "" THEN Next_(v)
     ELSE IF jv.err # "none"
          THEN Next_([Log(v, "warn", "Invalid token", jv.err, r.url)
                        EXCEPT !.user = "claims"])
          ELSE Next_([v EXCEPT !.user = jv.user])

\* mutant: a request without a token is answered 401
authenticateToken_Requires(r) ==
  LET v     == Visit(r, "authenticateToken")
      token == Token(r.authorization)
      jv    == JwtVerify(token)
  IN IF token = "" THEN ResJson(v, 401, [error |-> "UNAUTHORIZED"])
     ELSE IF jv.err # "none"
          THEN Next_(Log(v, "warn", "Invalid token", jv.err, r.url))
          ELSE Next_([v EXCEPT !.user = jv.user])

authenticateToken(r) ==
  LET v     == Visit(r, "authenticateToken")
      token == Token(r.authorization)
      jv    == JwtVerify(token)
  IN IF token = "" THEN Next_(v)
     ELSE IF jv.err # "none"
          THEN Next_(Log(v, "warn", "Invalid token", jv.err, r.url))
          ELSE Next_([v EXCEPT !.user = jv.user])

(* --------------------------- the proxy routes ------------------------- *)

\* mutant: the business route is mounted on the prefix of the startup route
ProxyRoutes_SharedPrefix ==
  << [ name |-> "startup",
       mount |-> <<"/", "api", "/", "v1", "/", "startup">>,
       target |-> SERVICES.startupFormation,
       rewriteTo |-> <<"/", "api", "/", "v1">>,
       logMsg |-> "Startup Formation Service error",
       error |-> "STARTUP_FORMATION_ERROR",
       message |-> "Startup Formation Service is currently unavailable",
       onProxyReq |-> TRUE ],
     [ name |-> "legal",
       mount |-> <<"/", "api", "/", "v1", "/", "legal">>,
       target |-> SERVICES.legalCompliance,
       rewriteTo |-> <<"/", "api", "/", "v1">>,
       logMsg |-> "Legal Compliance Service error",
       error |-> "LEGAL_COMPLIANCE_ERROR",
       message |-> "Legal Compliance Service is currently unavailable",
       onProxyReq |-> FALSE ],
     [ name |-> "content",
       mount |-> <<"/", "api", "/", "v1", "/", "content">>,
       target |-> SERVICES.contentStrategy,
       rewriteTo |-> <<"/", "api", "/", "v1">>,
       logMsg |-> "Content Strategy Service error",
       error |-> "CONTENT_STRATEGY_ERROR",
       message |-> "Content Strategy Service is currently unavailable",
       onProxyReq |-> FALSE ],
     [ name |-> "business",
       mount |-> <<"/", "api", "/", "v1", "/", "startup">>,
       target |-> SERVICES.businessFormation,
       rewriteTo |-> <<"/", "api", "/", "v1">>,
       logMsg |-> "Business Formation Service error",
       error |-> "BUSINESS_FORMATION_ERROR",
       message |-> "Business Formation Service is currently unavailable",
       onProxyReq |-> FALSE ] >>

\* the four app.use('/api/v1/<prefix>', authenticateToken,
\* createProxyMiddleware({...})) mounts, in registration order
ProxyRoutes ==
  << [ name |-> "startup",
       mount |-> <<"/", "api", "/", "v1", "/", "startup">>,
       target |-> SERVICES.startupFormation,
       rewriteTo |-> <<"/", "api", "/", "v1">>,
       logMsg |-> "Startup Formation Service error",
       error |-> "STARTUP_FORMATION_ERROR",
       message |-> "Startup Formation Service is currently unavailable",
       onProxyReq |-> TRUE ],
     [ name |-> "legal",
       mount |-> <<"/", "api", "/", "v1", "/", "legal">>,
       target |-> SERVICES.legalCompliance,
       rewriteTo |-> <<"/", "api", "/", "v1">>,
       logMsg |-> "Legal Compliance Service error",
       error |-> "LEGAL_COMPLIANCE_ERROR",
       message |-> "Legal Compliance Service is currently unavailable",
       onProxyReq |-> FALSE ],
     [ name |-> "content",
       mount |-> <<"/", "api", "/", "v1", "/", "content">>,
       target |-> SERVICES.contentStrategy,
       rewriteTo |-> <<"/", "api", "/", "v1">>,
       logMsg |-> "Content Strategy Service error",
       error |-> "CONTENT_STRATEGY_ERROR",
       message |-> "Content Strategy Service is currently unavailable",
       onProxyReq |-> FALSE ],
     [ name |-> "business",
       mount |-> <<"/", "api", "/", "v1", "/", "business">>,
       target |-> SERVICES.businessFormation,
       rewriteTo |-> <<"/", "api", "/", "v1">>,
       logMsg |-> "Business Formation Service error",
       error |-> "BUSINESS_FORMATION_ERROR",
       message |-> "Business Formation Service is currently unavailable",
       onProxyReq |-> FALSE ] >>

RouteNames == {ProxyRoutes[i].name : i \in 1..Len(ProxyRoutes)}

RouteOf(name) ==
  ProxyRoutes[CHOOSE i \in 1..Len(ProxyRoutes) : ProxyRoutes[i].name = name]

\* mutant: the rewrite rule never applies
PathRewrite_Unapplied(route, url) == url

\* pathRewrite: { '^/api/v1/<prefix>': '/api/v1' }: a regular expression on
\* the characters of the URL, anchored at its start
PathRewrite(route, url) ==
  IF StartsWith(url, route.mount)
  THEN route.rewriteTo \o Drop(url, Len(route.mount))
  ELSE url

\* the request the proxy writes to the target. The proxy rewrites
\* req.originalUrl, changeOrigin sets the Host header to the target's, and
\* the body is piped from the request stream: what a body parser has read
\* from the stream is no longer there to be piped
ProxyRequest(route, r) ==
  [ target  |-> route.target,
    method  |-> r.method,
    url     |-> PathRewrite(route, r.url),
    headers |-> [Headers(r) EXCEPT !.host = route.target],
    body    |-> IF r.drained THEN "none" ELSE r.body ]

\* createProxyMiddleware({...}) as a middleware: the request goes out
Proxy(route, r) ==
  LET v == [Visit(r, "proxy") EXCEPT !.up = ProxyRequest(route, r),
                                     !.route = route.name,
                                     !.st = "forwarded"]
  IN End(IF route.onProxyReq
         THEN Log(v, "info", "Proxying to Startup Formation", "none", v.up.url)
         ELSE v)

\* mutant: the handler answers 502
OnError_Status502(route, err, r) ==
  ResJson(Log(Visit(r, "onError"), "error", route.logMsg, err.msg, r.up.url),
          502, [error |-> route.error, message |-> route.message])

\* mutant: the handler puts err.message into the response
OnError_Leaks(route, err, r) ==
  ResJson(Log(Visit(r, "onError"), "error", route.logMsg, err.msg, r.up.url),
          500, [error |-> route.error, message |-> err.msg])

\* mutant: the handler sends the request to the target once more
OnError_Retries(route, err, r) ==
  End([Visit(Log(Visit(r, "onError"), "error", route.logMsg, err.msg, r.up.url),
             "proxy")
         EXCEPT !.st = "forwarded"])

\* onError: (err, req, res) => {...} of a proxy route
OnError(route, err, r) ==
  ResJson(Log(Visit(r, "onError"), "error", route.logMsg, err.msg, r.up.url),
          500, [error |-> route.error, message |-> route.message])

(* ------------------------ the remaining handlers ---------------------- *)

\* mutant: the handler reports the time left of the run, which goes down
Health_TimeLeft(r) ==
  ResJson(Visit(r, "health"), 200,
          [status |-> "healthy", service |-> "api-gateway",
           uptime |-> MaxUptime - uptime])

\* app.get('/health', ...); the timestamp, a reading of the wall clock, is
\* left out of the body
Health(r) ==
  ResJson(Visit(r, "health"), 200,
          [status |-> "healthy", service |-> "api-gateway", uptime |-> uptime])

\* mutant: the last registered service is missing from the list
ServiceDiscovery_FirstThree(r) ==
  ResJson(Visit(r, "services"), 200,
          [services |-> [i \in 1..(Len(ServiceKeys) - 1) |->
                           [name |-> ServiceKeys[i],
                            url |-> SERVICES[ServiceKeys[i]],
                            status |-> "healthy"]]])

\* app.get('/api/services', ...)
ServiceDiscovery(r) ==
  ResJson(Visit(r, "services"), 200,
          [services |-> [i \in 1..Len(ServiceKeys) |->
                           [name |-> ServiceKeys[i],
                            url |-> SERVICES[ServiceKeys[i]],
                            status |-> "healthy"]]])

\* mutant: the fallback lists three of the four services
ApiFallback_ThreeServices(r) ==
  ResJson(Visit(r, "apiFallback"), 404,
          [error |-> "API_ENDPOINT_NOT_FOUND",
           message |-> <<"API endpoint ", r.url, " not found">>,
           availableServices |-> SubSeq(ServiceKeys, 1, 3)])

\* mutant: the fallback hands the request to the first registered upstream
ApiFallback_Forwards(r) ==
  End([Visit(r, "apiFallback") EXCEPT
         !.up = ProxyRequest(ProxyRoutes[1], r), !.st = "forwarded"])

\* app.use('/api/*', ...)
ApiFallback(r) ==
  ResJson(Visit(r, "apiFallback"), 404,
          [error |-> "API_ENDPOINT_NOT_FOUND",
           message |-> <<"API endpoint ", r.url, " not found">>,
           availableServices |-> ServiceKeys])

\* app.use(express.static('public')): no URL of the model names a file of
\* public/, so the middleware calls next()
Static(r) == Next_(Visit(r, "static"))

\* app.get('*', ...): res.sendFile('index.html', { root: 'public' }); a
\* missing file is passed on as next(err)
Spa(r, hasIndex) ==
  IF hasIndex
  THEN ResJson(Visit(r, "spa"), 200, [file |-> "index.html"])
  ELSE Fail(Visit(r, "spa"), [msg |-> "ENOENT: no such file", status |-> 404])

\* the global error handler app.use((err, req, res, next) => {...})
ErrorHandler(err, r) ==
  ResJson(Log(Visit(r, "errorHandler"), "error", "Unhandled error", err.msg, r.url),
          500, [error |-> "INTERNAL_ERROR",
                message |-> "An unexpected error occurred"])

\* mutant: the 404 handler answers with the fallback's error code
NotFound_ApiCode(r) ==
  ResJson(Visit(r, "notFound"), 404,
          [error |-> "API_ENDPOINT_NOT_FOUND",
           message |-> <<"Route ", r.url, " not found">>])

\* the 404 handler app.use('*', ...)
NotFound(r) ==
  ResJson(Visit(r, "notFound"), 404,
          [error |-> "NOT_FOUND",
           message |-> <<"Route ", r.url, " not found">>])

\* Express's final handler, reached when the stack is exhausted: with an
\* error it answers err.status (500 if unset) and an HTML page that carries
\* the stack unless NODE_ENV is production; it logs nothing through logger
FinalHandler(err, r, env) ==
  IF err = NoErr
  THEN ResJson(Visit(r, "finalhandler"), 404, [html |-> "Cannot " \o r.method])
  ELSE ResJson(Visit(r, "finalhandler"),
               IF err.status >= 400 /\ err.status < 600 THEN err.status ELSE 500,
               [html |-> IF env = "production" THEN "status message" ELSE err.msg])

(* ------------------------- the middleware stack ----------------------- *)

\* the layers registered after the limiter, in registration order; the
\* static and SPA handlers exist only when NODE_ENV === 'development'
Stack(env) ==
  <<"logger", "health", "services", "startup", "legal", "content", "business",
    "apiFallback">>
  \o (IF env = "development" THEN <<"static", "spa">> ELSE <<>>)
  \o <<"errorHandler", "notFound">>

\* mutant: the mount matches every path that starts with its characters
MountMatch_Characters(mount, url) == StartsWith(Pathname(url), mount)

\* app.use(path, ...): the path matches the mount at a segment boundary
MountMatch(mount, url) ==
  LET pn == Pathname(url) IN
  /\ StartsWith(pn, mount)
  /\ (Len(pn) = Len(mount) \/ pn[Len(mount) + 1] = "/")

\* Express's Layer.match for each layer: "yes", "no", or "throw" when
\* decoding the part of the path a '*' captured raises URIError
LayerMatch(layer, r) ==
  LET pn == Pathname(r.url) IN
  CASE layer \in {"logger", "static", "errorHandler"} -> "yes"
    [] layer = "health" ->
         IF pn = U_health /\ r.method = "GET" THEN "yes" ELSE "no"
    [] layer = "services" ->
         IF pn = U_services /\ r.method = "GET" THEN "yes" ELSE "no"
    [] layer \in RouteNames ->
         IF MountMatch(RouteOf(layer).mount, r.url) THEN "yes" ELSE "no"
    [] layer = "apiFallback" ->
         IF ~StartsWith(pn, <<"/", "api", "/">>) THEN "no"
         ELSE IF Decodable(Drop(pn, 3)) THEN "yes" ELSE "throw"
    [] layer = "spa" ->
         IF ~Decodable(pn) THEN "throw"
         ELSE IF r.method = "GET" THEN "yes" ELSE "no"
    [] layer = "notFound" ->
         IF Decodable(pn) THEN "yes" ELSE "throw"

URIError == [msg |-> "URIError: Failed to decode param", status |-> 400]

\* the handlers of a layer, run on a request with no error pending
Invoke(layer, r, hasIndex) ==
  CASE layer = "logger"      -> RequestLogger(r)
    [] layer = "health"      -> Health(r)
    [] layer = "services"    -> ServiceDiscovery(r)
    [] layer \in RouteNames  ->
         LET a == authenticateToken(r) IN
         IF a.k = "next" THEN Proxy(RouteOf(layer), a.r) ELSE a
    [] layer = "apiFallback" -> ApiFallback(r)
    [] layer = "static"      -> Static(r)
    [] layer = "spa"         -> Spa(r, hasIndex)
    [] layer = "notFound"    -> NotFound(r)

\* Express's router: the layers from the i-th on, with err the pending
\* error (NoErr if none). A pending error skips every handler but an error
\* handler; an error handler is skipped when no error is pending.
RECURSIVE Walk(_, _, _, _, _)
Walk(i, r, err, env, hasIndex) ==
  LET stack == Stack(env) IN
  IF i > Len(stack) THEN FinalHandler(err, r, env).r
  ELSE
    LET layer == stack[i]
        m     == LayerMatch(layer, r)
    IN
    IF m = "no" THEN Walk(i + 1, r, err, env, hasIndex)
    ELSE IF m = "throw"
    THEN Walk(i + 1, Raise(r, URIError),
              IF err = NoErr THEN URIError ELSE err, env, hasIndex)
    ELSE IF err # NoErr
    THEN IF layer = "errorHandler"
         THEN LET e == ErrorHandler(err, r) IN
              IF e.k = "end" THEN e.r
              ELSE Walk(i + 1, e.r, e.err, env, hasIndex)
         ELSE Walk(i + 1, r, err, env, hasIndex)
    ELSE IF layer = "errorHandler" THEN Walk(i + 1, r, err, env, hasIndex)
    ELSE LET h == Invoke(layer, r, hasIndex) IN
         IF h.k = "end" THEN h.r
         ELSE Walk(i + 1, h.r, h.err, env, hasIndex)

\* one request through the application: body parsers, limiter, then the
\* stack. A parser error is pending before the limiter, which it skips.
App(r, count, env, hasIndex) ==
  LET p == BodyParsers(r)
      l == IF p.k = "next" THEN Limiter(p.r, count) ELSE p
  IN IF l.k = "end" THEN l.r ELSE Walk(1, l.r, l.err, env, hasIndex)

(* ------------------------------ the inputs ---------------------------- *)

Urls ==
  { U_health, U_services, U_startup_x, U_legal_audit, U_content_q,
    U_business_x, U_startupx, U_startup_legal, U_legalese_1, U_unknown,
    U_api_esc, U_api, U_other, U_esc }

IsProxied(url) == \E n \in RouteNames : MountMatch(RouteOf(n).mount, url)

\* the requests a client may send: a GET carries no body, a POST one. The
\* Authorization header is varied where a handler reads it (the proxy
\* routes), on the requests without a body and on those with a JSON body.
\* The second client sends the requests that show its counter is its own.
AllInputs ==
  { [method |-> m, url |-> u, body |-> b, authorization |-> a, ip |-> ip] :
      m \in {"GET", "POST"}, u \in Urls, b \in Bodies, a \in AuthHeaders,
      ip \in IPs }

Inputs ==
  { i \in AllInputs :
      /\ (i.method = "GET") = (i.body = "none")
      /\ (i.authorization # <<>> =>
            IsProxied(i.url) /\ i.body \in {"none", "json"})
      /\ (i.ip = "ip2" =>
            /\ i.url \in {U_health, U_legal_audit}
            /\ i.method = "GET"
            /\ i.authorization = <<>>) }

\* the twins: on the first connection a client sends proxied requests with
\* a bearer token that jwt.verify rejects, on the second the same requests
\* with no Authorization header
RejectedTokenInputs ==
  { i \in Inputs : /\ i.ip = "ip1" /\ i.method = "GET"
                   /\ Token(i.authorization) \in BadTokens }

NoHeaderInputs ==
  { i \in Inputs : /\ i.ip = "ip1" /\ i.method = "GET"
                   /\ IsProxied(i.url) /\ i.authorization = <<>> }

\* the core: requests without an Authorization header to each kind of
\* route, with no body or with a body the parsers reject
CoreInputs ==
  { i \in Inputs :
      /\ i.authorization = <<>>
      /\ i.body \in {"none", "badjson"}
      /\ i.url \in {U_health, U_services, U_legal_audit, U_unknown, U_other}
      /\ (i.body = "badjson" => i.url \in {U_health, U_legal_audit}) }

\* the requests the client of connection s may send
InputsOf(s) ==
  IF workload = "any" THEN Inputs
  ELSE IF workload = "core" THEN CoreInputs
  ELSE IF s = 1 THEN RejectedTokenInputs ELSE NoHeaderInputs

Configs ==
  { [env |-> "production", index |-> FALSE],
    [env |-> "unset", index |-> FALSE],
    [env |-> "development", index |-> TRUE],
    [env |-> "development", index |-> FALSE] }

(* -------------------------- check-file-size.sh ------------------------ *)

\* files named in one run of the script
MaxFiles == 2

\* DEFAULT_MAX_SIZE=100
DEFAULT_MAX_SIZE == 100

\* the bytes of a megabyte as the script counts them: bytes / 1024 / 1024
MiB == 1024 * 1024

\* the decimal strings the model passes as max-size-mb, with their values
Numeral == ("1" :> 1) @@ ("100" :> 100)

\* [[ "$MAX_SIZE_MB" =~ ^[0-9]+$ ]]
IsNumber(text) == text \in DOMAIN Numeral

\* "${2:-$DEFAULT_MAX_SIZE}": the text of the default
DefaultText == CHOOSE t \in DOMAIN Numeral : Numeral[t] = DEFAULT_MAX_SIZE

\* FILE_SIZE_MB=$(( FILE_SIZE_BYTES / 1024 / 1024 )): integer division
FileSizeMb(bytes) == (bytes \div 1024) \div 1024

\* [ "$FILE_SIZE_MB" -gt "$MAX_SIZE_MB" ]
TooLarge(bytes, maxText) == FileSizeMb(bytes) > Numeral[maxText]

\* no run of the script
ShOff ==
  [ pc |-> "off", argv |-> <<>>, FILE_LIST |-> <<>>, MAX_SIZE_MB |-> "",
    rest |-> <<>>, LARGE_FILES |-> <<>>, notFound |-> <<>>, EXIT_CODE |-> 0,
    status |-> -1 ]

(* ------------------------------ the pages ----------------------------- *)

\* useState({...}): the form of a new workflow
FormDefaults ==
  [ companyName |-> "", entityType |-> "llc", state |-> "washington",
    industry |-> "technology", description |-> "", founderName |-> "",
    founderEmail |-> "", founderRole |-> "ceo" ]

\* mutant: only the company name is required
RequiredFilled_NameOnly(formData) == formData.companyName # ""

\* the negation of: !formData.companyName || !formData.founderName ||
\* !formData.founderEmail (the empty string is the falsy string)
RequiredFilled(formData) ==
  ~(formData.companyName = "" \/ formData.founderName = ""
      \/ formData.founderEmail = "")

\* JSON.stringify({...}): the body of the POST
WorkflowBody(formData) ==
  [ company_name |-> formData.companyName,
    entity_type |-> formData.entityType,
    state |-> formData.state,
    industry |-> formData.industry,
    description |-> formData.description,
    founder_name |-> formData.founderName,
    founder_email |-> formData.founderEmail,
    founder_role |-> formData.founderRole ]

NoPost == [company_name |-> "none"]

\* StartupFormationPage before it is mounted: the initial values of its
\* useState calls. post is the POST in flight, gets the number of
\* loadWorkflows requests in flight, server the number of workflows the
\* backend holds, event the last event handled, alert the last alert shown.
PageOff ==
  [ pc |-> "off", activeTab |-> "create", workflows |-> 0,
    isLoading |-> FALSE, formData |-> FormDefaults, post |-> NoPost,
    gets |-> 0, server |-> 0, event |-> "none", alert |-> "none" ]
\* useState<string>(''): no response text. A response text is recorded with
\* the number of the request that produced it.
NoResponse == [of |-> 0, text |-> ""]

\* Home before it is mounted: the initial values of its useState calls
\* (selectedService 0 is null); requests are the agent requests issued so
\* far, in the order of the clicks
HomeOff ==
  [ pc |-> "off", selectedService |-> 0, isLoading |-> FALSE,
    aiResponse |-> NoResponse, requests |-> <<>> ]
(* --------------------- PlotlyWorkflowVisualization -------------------- *)

\* defaultNodes of loadDefaultWorkflow, in array order
DefaultNodes ==
  << [id |-> "start",              type |-> "start",    status |-> "completed"],
     [id |-> "analyze",            type |-> "process",  status |-> "completed"],
     [id |-> "name_check",         type |-> "mcp",      status |-> "completed"],
     [id |-> "prepare_docs",       type |-> "process",  status |-> "in_progress"],
     [id |-> "dor_registration",   type |-> "mcp",      status |-> "pending"],
     [id |-> "sos_filing",         type |-> "mcp",      status |-> "pending"],
     [id |-> "tax_setup",          type |-> "mcp",      status |-> "pending"],
     [id |-> "manual_approval",    type |-> "approval", status |-> "waiting_approval"],
     [id |-> "final_registration", type |-> "process",  status |-> "pending"],
     [id |-> "complete",           type |-> "end",      status |-> "pending"] >>

\* defaultEdges of loadDefaultWorkflow
DefaultEdges ==
  << [source |-> "start",              target |-> "analyze"],
     [source |-> "analyze",            target |-> "name_check"],
     [source |-> "name_check",         target |-> "prepare_docs"],
     [source |-> "prepare_docs",       target |-> "dor_registration"],
     [source |-> "prepare_docs",       target |-> "sos_filing"],
     [source |-> "dor_registration",   target |-> "tax_setup"],
     [source |-> "sos_filing",         target |-> "manual_approval"],
     [source |-> "tax_setup",          target |-> "manual_approval"],
     [source |-> "manual_approval",    target |-> "final_registration"],
     [source |-> "final_registration", target |-> "complete"] >>

\* the status values of WorkflowNode
NodeStatuses ==
  {"pending", "in_progress", "completed", "failed", "waiting_approval"}

\* the element the component function returns
Rendered(plotlyLoaded) == IF ~plotlyLoaded THEN "placeholder" ELSE "chart"

\* the component before it is mounted. props is the nodes/edges pair the
\* parent passes (Absent: the parameter defaults, a new [] at every
\* render); shown is the element on the screen; dirty says a render is
\* scheduled; fresh says the props changed since the effects last ran.
Absent == [given |-> FALSE, nodes |-> <<>>, edges |-> <<>>]

VizOff ==
  [ pc |-> "off", props |-> Absent, plotlyLoaded |-> FALSE,
    selectedNode |-> "", nodes |-> <<>>, edges |-> <<>>, shown |-> "none",
    dirty |-> FALSE, fresh |-> FALSE ]

(* ------------------------------- actions ------------------------------ *)

Slots == DOMAIN reqs

Init ==
  /\ reqs = [s \in {1} |-> Idle]
  /\ \E h \in {0, max - 1} : hits = [ip \in IPs |-> IF ip = "ip1" THEN h ELSE 0]
  /\ arrivals = 0
  /\ proc = "running"
  /\ \E c \in Configs : NODE_ENV = c.env /\ publicIndex = c.index
  /\ workload = "any"
  /\ passed = hits
  /\ uptime = 0
  /\ signal = "none"
  /\ sh = ShOff /\ page = PageOff /\ home = HomeOff /\ viz = VizOff

\* a request arrives on a connection
Receive(s, i) ==
  /\ proc = "running"
  /\ reqs[s].st = "idle"
  /\ arrivals < MaxArrivals
  /\ arrivals' = arrivals + 1
  /\ reqs' = [reqs EXCEPT ![s] =
                [Idle EXCEPT !.st = "received", !.method = i.method,
                             !.url = i.url, !.body = i.body,
                             !.authorization = i.authorization, !.ip = i.ip]]
  /\ UNCHANGED <<hits, proc, NODE_ENV, publicIndex, workload, passed, uptime,
                 signal>>
  /\ UNCHANGED <<sh, page, home, viz>>

\* the application handles the request: the chain from the body parsers to
\* the handler that answers it or hands it to the proxy
Handle(s) ==
  /\ proc = "running"
  /\ reqs[s].st = "received"
  /\ LET r   == reqs[s]
         out == App(r, hits[r.ip], NODE_ENV, publicIndex)
     IN /\ reqs' = [reqs EXCEPT ![s] = out]
        /\ hits' = IF out.totalHits > 0
                   THEN [hits EXCEPT ![r.ip] = out.totalHits]
                   ELSE hits
        /\ passed' = IF Visited(out, "logger")
                     THEN [passed EXCEPT ![r.ip] = @ + 1]
                     ELSE passed
  /\ UNCHANGED <<arrivals, proc, NODE_ENV, publicIndex, workload, uptime, signal>>
  /\ UNCHANGED <<sh, page, home, viz>>

\* the target accepts the connection and the request is written to it
UpstreamConnect(s) ==
  /\ proc = "running"
  /\ reqs[s].st = "forwarded"
  /\ reqs' = [reqs EXCEPT ![s].st = "connected"]
  /\ UNCHANGED <<hits, arrivals, proc, NODE_ENV, publicIndex, workload, passed,
                 uptime, signal>>
  /\ UNCHANGED <<sh, page, home, viz>>

\* the target answers: the proxy relays status and headers and starts to
\* pipe the body
UpstreamResponse(s) ==
  /\ proc = "running"
  /\ reqs[s].st = "connected"
  /\ reqs' = [reqs EXCEPT ![s] =
                [Visit(@, "proxyRes") EXCEPT
                   !.res = Append(@, [status |-> 200,
                                      body |-> [upstream |-> reqs[s].up.target]]),
                   !.headersSent = TRUE,
                   !.st = "streaming"]]
  /\ UNCHANGED <<hits, arrivals, proc, NODE_ENV, publicIndex, workload, passed,
                 uptime, signal>>
  /\ UNCHANGED <<sh, page, home, viz>>

\* the target's response ends
UpstreamEnd(s) ==
  /\ proc = "running"
  /\ reqs[s].st = "streaming"
  /\ reqs' = [reqs EXCEPT ![s] = [Visit(@, "end") EXCEPT !.st = "done"]]
  /\ UNCHANGED <<hits, arrivals, proc, NODE_ENV, publicIndex, workload, passed,
                 uptime, signal>>
  /\ UNCHANGED <<sh, page, home, viz>>

\* what the socket to the target reports before the connection is made
\* (refused, timed out, name not resolved) and once a response is relayed
ConnectErrors == {"ECONNREFUSED", "ETIMEDOUT", "ENOTFOUND"}
StreamErrors  == {"ECONNRESET"}

\* the connection to the target fails: the proxy's 'error' event calls the
\* route's onError. An exception the handler throws is thrown out of an
\* event listener: nothing catches it and the process ends.
UpstreamError(s, cause) ==
  /\ proc = "running"
  /\ \/ reqs[s].st = "forwarded" /\ cause \in ConnectErrors
     \/ reqs[s].st = "streaming" /\ cause \in StreamErrors
  /\ LET r == reqs[s]
         e == OnError(RouteOf(r.route), [msg |-> cause, status |-> 0], r)
     IN IF e.k = "end"
        THEN /\ reqs' = [reqs EXCEPT ![s] = e.r]
             /\ proc' = proc
        ELSE /\ reqs' = [reqs EXCEPT ![s] = [e.r EXCEPT !.uncaught = e.err]]
             /\ proc' = "crashed"
  /\ UNCHANGED <<hits, arrivals, NODE_ENV, publicIndex, workload, passed,
                 uptime, signal>>
  /\ UNCHANGED <<sh, page, home, viz>>

\* the limiter's window of an IP ends and its counter starts again
WindowReset(ip) ==
  /\ proc = "running"
  /\ hits[ip] > 0
  /\ hits' = [hits EXCEPT ![ip] = 0]
  /\ passed' = [passed EXCEPT ![ip] = 0]
  /\ UNCHANGED <<reqs, arrivals, proc, NODE_ENV, publicIndex, workload, uptime,
                 signal>>
  /\ UNCHANGED <<sh, page, home, viz>>

\* the response is complete and the connection is free for the next request
Close(s) ==
  /\ proc = "running"
  /\ reqs[s].st = "done"
  /\ reqs' = [reqs EXCEPT ![s] = Idle]
  /\ UNCHANGED <<hits, arrivals, proc, NODE_ENV, publicIndex, workload, passed,
                 uptime, signal>>
  /\ UNCHANGED <<sh, page, home, viz>>

\* the clock of process.uptime() advances
Tick ==
  /\ proc = "running"
  /\ uptime < MaxUptime
  /\ uptime' = uptime + 1
  /\ UNCHANGED <<reqs, hits, arrivals, proc, NODE_ENV, publicIndex, workload,
                 passed, signal>>
  /\ UNCHANGED <<sh, page, home, viz>>

Signals == {"SIGTERM", "SIGINT"}

\* mutant: the handler logs and returns, the process goes on serving
OnSignal_KeepsServing(sig) == "running"

\* process.on(sig, () => { logger.info(...); process.exit(0); }): what
\* becomes of the process
OnSignal(sig) == "exited"

\* a termination signal is delivered and its handler runs
Signal(sig) ==
  /\ proc = "running"
  /\ signal' = sig
  /\ proc' = OnSignal(sig)
  /\ UNCHANGED <<reqs, hits, arrivals, NODE_ENV, publicIndex, workload, passed,
                 uptime>>
  /\ UNCHANGED <<sh, page, home, viz>>

Next ==
  \/ \E s \in Slots : \E i \in InputsOf(s) : Receive(s, i)
  \/ \E s \in Slots : Handle(s)
  \/ \E s \in Slots : UpstreamConnect(s)
  \/ \E s \in Slots : UpstreamResponse(s)
  \/ \E s \in Slots : UpstreamEnd(s)
  \/ \E s \in Slots, cause \in ConnectErrors \cup StreamErrors :
        UpstreamError(s, cause)
  \/ \E s \in Slots : Close(s)
  \/ \E ip \in IPs : WindowReset(ip)
  \/ Tick
  \/ \E sig \in Signals : Signal(sig)

Spec == Init /\ [][Next]_vars

\* two connections served at once, with the twin requests
InitPair ==
  /\ reqs = [s \in {1, 2} |-> Idle]
  /\ hits = [ip \in IPs |-> 0]
  /\ arrivals = 0
  /\ proc = "running"
  /\ NODE_ENV = "production" /\ publicIndex = FALSE
  /\ workload = "twins"
  /\ passed = hits
  /\ uptime = 0
  /\ signal = "none"
  /\ sh = ShOff /\ page = PageOff /\ home = HomeOff /\ viz = VizOff

SpecPair == InitPair /\ [][Next]_vars

\* two connections served at once with the core requests, the first client
\* one request short of its budget
InitBurst ==
  /\ reqs = [s \in {1, 2} |-> Idle]
  /\ hits = [ip \in IPs |-> IF ip = "ip1" THEN max - 1 ELSE 0]
  /\ arrivals = 0
  /\ proc = "running"
  /\ NODE_ENV = "production" /\ publicIndex = FALSE
  /\ workload = "core"
  /\ passed = hits
  /\ uptime = 0
  /\ signal = "none"
  /\ sh = ShOff /\ page = PageOff /\ home = HomeOff /\ viz = VizOff

SpecBurst == InitBurst /\ [][Next]_vars

\* one connection with the core requests; the event loop runs a handler that
\* is ready and the clock advances, while nothing obliges a client to send,
\* a target to accept, answer or fail, or a signal to arrive
InitLive ==
  /\ reqs = [s \in {1} |-> Idle]
  /\ hits = [ip \in IPs |-> 0]
  /\ arrivals = 0
  /\ proc = "running"
  /\ NODE_ENV = "production" /\ publicIndex = FALSE
  /\ workload = "core"
  /\ passed = hits
  /\ uptime = 0
  /\ signal = "none"
  /\ sh = ShOff /\ page = PageOff /\ home = HomeOff /\ viz = VizOff

SpecLive ==
  /\ InitLive /\ [][Next]_vars
  /\ \A s \in {1} : WF_vars(Handle(s))
  /\ WF_vars(Tick)

(* ----------------------- check-file-size.sh: a run -------------------- *)

\* the gateway is not part of the run of another program
GwOff ==
  /\ reqs = [s \in {1} |-> Idle]
  /\ hits = [ip \in IPs |-> 0]
  /\ arrivals = 0
  /\ proc = "stopped"
  /\ NODE_ENV = "production" /\ publicIndex = FALSE
  /\ workload = "core"
  /\ passed = hits
  /\ uptime = 0
  /\ signal = "none"

\* sizes in bytes on either side of the limits of the model (1 MB and the
\* default), and the empty file
Sizes ==
  { 0, MiB, MiB + 1, 2 * MiB - 1, 2 * MiB,
    DEFAULT_MAX_SIZE * MiB, DEFAULT_MAX_SIZE * MiB + 1,
    (DEFAULT_MAX_SIZE + 1) * MiB }

\* a name of the list: a regular file of some size, or no file
FileKinds ==
  { [exists |-> TRUE, bytes |-> b] : b \in Sizes }
  \cup { [exists |-> FALSE, bytes |-> 0] }

FileLists ==
  UNION { [1..n -> FileKinds] : n \in 0..MaxFiles }

\* the command lines: $# and, where given, $1 (the list) and $2
Invocations ==
  { [argc |-> 0, files |-> <<>>, maxArg |-> ""] }
  \cup { [argc |-> 1, files |-> l, maxArg |-> ""] : l \in FileLists }
  \cup { [argc |-> 2, files |-> l, maxArg |-> m] :
           l \in FileLists, m \in {"1", "100", "abc"} }

InitScript ==
  /\ GwOff
  /\ \E a \in Invocations : sh = [ShOff EXCEPT !.pc = "args", !.argv = a]
  /\ page = PageOff /\ home = HomeOff /\ viz = VizOff

\* if [ $# -lt 1 ]; then usage; fi -- FILE_LIST="$1" --
\* MAX_SIZE_MB="${2:-$DEFAULT_MAX_SIZE}"
ShArguments ==
  /\ sh.pc = "args"
  /\ sh' = IF sh.argv.argc < 1
           THEN [sh EXCEPT !.pc = "exited", !.status = 1]
           ELSE [sh EXCEPT !.pc = "validate",
                           !.FILE_LIST = sh.argv.files,
                           !.MAX_SIZE_MB = IF sh.argv.argc >= 2
                                           THEN sh.argv.maxArg
                                           ELSE DefaultText]
  /\ UNCHANGED <<gw, page, home, viz>>

\* the check of max-size-mb; then LARGE_FILES=() and EXIT_CODE=0
ShValidate ==
  /\ sh.pc = "validate"
  /\ sh' = IF ~IsNumber(sh.MAX_SIZE_MB)
           THEN [sh EXCEPT !.pc = "exited", !.status = 1]
           ELSE [sh EXCEPT !.pc = "loop", !.rest = sh.FILE_LIST,
                           !.LARGE_FILES = <<>>, !.EXIT_CODE = 0]
  /\ UNCHANGED <<gw, page, home, viz>>

\* one turn of: for file in $FILE_LIST; do ... done
ShFile ==
  /\ sh.pc = "loop" /\ sh.rest # <<>>
  /\ LET k    == Len(sh.FILE_LIST) - Len(sh.rest) + 1
         file == Head(sh.rest)
     IN sh' = IF file.exists
              THEN IF TooLarge(file.bytes, sh.MAX_SIZE_MB)
                   THEN [sh EXCEPT !.rest = Tail(@),
                                   !.LARGE_FILES = Append(@, k),
                                   !.EXIT_CODE = 1]
                   ELSE [sh EXCEPT !.rest = Tail(@)]
              ELSE [sh EXCEPT !.rest = Tail(@), !.notFound = Append(@, k)]
  /\ UNCHANGED <<gw, page, home, viz>>

\* the report and exit $EXIT_CODE
ShReport ==
  /\ sh.pc = "loop" /\ sh.rest = <<>>
  /\ sh' = [sh EXCEPT !.pc = "exited", !.status = sh.EXIT_CODE]
  /\ UNCHANGED <<gw, page, home, viz>>

NextScript ==
  \/ ShArguments
  \/ ShValidate
  \/ ShFile
  \/ ShReport

SpecScript == InitScript /\ [][NextScript]_vars

(* ------------------------ StartupFormationPage ------------------------ *)

\* workflows the backend creates in one run
MaxCreated == 2

\* what the user types or selects in the fields the model varies
FieldValues ==
  [ companyName |-> {"", "Acme"}, founderName |-> {"", "Ada"},
    founderEmail |-> {"", "ada@acme.test"},
    entityType |-> {"llc", "corporation"} ]

PageTabs == {"create", "monitor", "templates"}

\* the component is mounted: useEffect calls loadWorkflows()
InitPage ==
  /\ GwOff
  /\ sh = ShOff /\ home = HomeOff /\ viz = VizOff
  /\ page = [PageOff EXCEPT !.pc = "on", !.gets = 1, !.event = "mount"]

\* onChange / onValueChange of a field of the form (the create tab)
PageEdit(field, value) ==
  /\ page.pc = "on" /\ page.activeTab = "create"
  /\ page' = [page EXCEPT !.formData[field] = value, !.event = "edit"]
  /\ UNCHANGED <<gw, sh, home, viz>>

\* <Tabs onValueChange={setActiveTab}>
PageSelectTab(tab) ==
  /\ page.pc = "on"
  /\ page' = [page EXCEPT !.activeTab = tab, !.event = "selectTab"]
  /\ UNCHANGED <<gw, sh, home, viz>>

\* createWorkflow up to its await: the button is rendered in the create tab
\* and is disabled while isLoading
PageClickCreate ==
  /\ page.pc = "on" /\ page.activeTab = "create" /\ ~page.isLoading
  /\ page' = IF ~RequiredFilled(page.formData)
             THEN [page EXCEPT !.event = "clickCreate",
                               !.alert = "Please fill in all required fields"]
             ELSE [page EXCEPT !.event = "clickCreate",
                               !.isLoading = TRUE,
                               !.post = WorkflowBody(page.formData)]
  /\ UNCHANGED <<gw, sh, home, viz>>

\* the outcomes of the POST: an ok response with a JSON body, an ok response
\* whose body is no JSON, a non-ok response, a rejected fetch
PostOutcomes == {"ok", "okNoJson", "notOk", "networkError"}

\* createWorkflow from its await on
PagePostDone(outcome) ==
  /\ page.pc = "on" /\ page.post # NoPost
  /\ outcome \in {"ok", "okNoJson"} => page.server < MaxCreated
  /\ page' =
       IF outcome = "ok"
       THEN [page EXCEPT !.post = NoPost, !.event = "postOk",
                         !.alert = "Workflow created successfully!",
                         !.gets = @ + 1,
                         !.activeTab = "monitor",
                         !.formData = FormDefaults,
                         !.isLoading = FALSE,
                         !.server = @ + 1]
       ELSE IF outcome = "okNoJson"
       THEN [page EXCEPT !.post = NoPost, !.event = "postOkNoJson",
                         !.alert = "Error creating workflow.",
                         !.isLoading = FALSE,
                         !.server = @ + 1]
       ELSE IF outcome = "notOk"
       THEN [page EXCEPT !.post = NoPost, !.event = "postNotOk",
                         !.alert = "Failed to create workflow",
                         !.isLoading = FALSE]
       ELSE [page EXCEPT !.post = NoPost, !.event = "postNetworkError",
                         !.alert = "Error creating workflow.",
                         !.isLoading = FALSE]
  /\ UNCHANGED <<gw, sh, home, viz>>

\* loadWorkflows from its await on: an ok response replaces the list
PageLoadDone(ok) ==
  /\ page.pc = "on" /\ page.gets > 0
  /\ page' = [page EXCEPT !.gets = @ - 1, !.event = "loaded",
                          !.workflows = IF ok THEN page.server ELSE @]
  /\ UNCHANGED <<gw, sh, home, viz>>

NextPage ==
  \/ \E field \in DOMAIN FieldValues : \E value \in FieldValues[field] :
       PageEdit(field, value)
  \/ \E tab \in PageTabs : PageSelectTab(tab)
  \/ PageClickCreate
  \/ \E outcome \in PostOutcomes : PagePostDone(outcome)
  \/ \E ok \in BOOLEAN : PageLoadDone(ok)

SpecPage == InitPage /\ [][NextPage]_vars

(* -------------------------------- Home -------------------------------- *)

\* clicks on service cards in one run
MaxClicks == 2

\* the ids of the services array
ServiceIds == 1..8

\* what one agent request ends with
AgentOutcomes == {"ok", "notOk", "networkError"}

\* the text handleServiceClick stores for an outcome
AiText(outcome) ==
  IF outcome = "ok" THEN "data.message"
  ELSE IF outcome = "notOk"
  THEN "Service temporarily unavailable. Please try again later."
  ELSE "Unable to connect to AI service. Please ensure the backend is running."

InitHome ==
  /\ GwOff
  /\ sh = ShOff /\ page = PageOff /\ viz = VizOff
  /\ home = [HomeOff EXCEPT !.pc = "on"]

\* handleServiceClick up to its await: the cards stay clickable while a
\* request is in flight
HomeClick(service) ==
  /\ home.pc = "on"
  /\ Len(home.requests) < MaxClicks
  /\ home' = [home EXCEPT
                !.selectedService = service,
                !.isLoading = TRUE,
                !.aiResponse = NoResponse,
                !.requests = Append(@, [service |-> service,
                                        state |-> "pending"])]
  /\ UNCHANGED <<gw, sh, page, viz>>

\* handleServiceClick from its await on, for the n-th request
HomeResponse(n, outcome) ==
  /\ home.pc = "on"
  /\ n \in 1..Len(home.requests)
  /\ home.requests[n].state = "pending"
  /\ home' = [home EXCEPT
                !.aiResponse = [of |-> n, text |-> AiText(outcome)],
                !.isLoading = FALSE,
                !.requests[n].state = "done"]
  /\ UNCHANGED <<gw, sh, page, viz>>

\* the panel's close button: setSelectedService(null)
HomeClose ==
  /\ home.pc = "on"
  /\ home.selectedService # 0
  /\ home' = [home EXCEPT !.selectedService = 0]
  /\ UNCHANGED <<gw, sh, page, viz>>

NextHome ==
  \/ \E service \in ServiceIds : HomeClick(service)
  \/ \E n \in 1..MaxClicks : \E outcome \in AgentOutcomes :
       HomeResponse(n, outcome)
  \/ HomeClose

SpecHome == InitHome /\ [][NextHome]_vars

(* ------------- PlotlyWorkflowVisualization: mount and render ---------- *)

\* nodes of a workflow the parent passes as props
MaxPropNodes == 2

PropIds == <<"a", "b", "c", "d">>

\* workflows passed as the nodes prop, with the edges prop a chain
PropWorkflows ==
  { [ given |-> TRUE,
      nodes |-> [i \in 1..MaxPropNodes |->
                   [id |-> PropIds[i], type |-> "process", status |-> st[i]]],
      edges |-> [i \in 1..(MaxPropNodes - 1) |->
                   [source |-> PropIds[i], target |-> PropIds[i + 1]]] ] :
      st \in [1..MaxPropNodes -> NodeStatuses] }

PropValues == {Absent} \cup PropWorkflows

\* initialNodes and initialEdges as the function's parameters give them
InitialNodes(props) == IF props.given THEN props.nodes ELSE <<>>
InitialEdges(props) == IF props.given THEN props.edges ELSE <<>>

\* the component is created: useState(initialNodes), useState(initialEdges),
\* plotlyLoaded false; its first render is scheduled
InitViz ==
  /\ GwOff
  /\ sh = ShOff /\ page = PageOff /\ home = HomeOff
  /\ \E p \in PropValues :
       viz = [VizOff EXCEPT !.pc = "on", !.props = p,
                            !.nodes = InitialNodes(p),
                            !.edges = InitialEdges(p),
                            !.dirty = TRUE, !.fresh = TRUE]

\* one render and commit with its effects. The element returned is put on
\* the screen; a Plot that is part of it is initialised and calls
\* onInitialized. The first effect stores the props when they are new (the
\* defaults are new at every render); the second, on the first commit only,
\* loads the default workflow when the rendered nodes were empty.
VizCommit ==
  /\ viz.pc = "on" /\ viz.dirty
  /\ LET shown     == Rendered(viz.plotlyLoaded)
         first     == viz.shown = "none"
         changed   == viz.fresh \/ ~viz.props.given
         byProps   == IF changed THEN InitialNodes(viz.props) ELSE viz.nodes
         edgeProps == IF changed THEN InitialEdges(viz.props) ELSE viz.edges
         default   == first /\ viz.nodes = <<>>
         loaded    == IF shown = "chart" THEN TRUE ELSE viz.plotlyLoaded
     IN viz' = [viz EXCEPT
                  !.shown = shown,
                  !.nodes = IF default THEN DefaultNodes ELSE byProps,
                  !.edges = IF default THEN DefaultEdges ELSE edgeProps,
                  !.plotlyLoaded = loaded,
                  !.fresh = FALSE,
                  !.dirty = \/ default
                            \/ changed
                            \/ loaded # viz.plotlyLoaded]
  /\ UNCHANGED <<gw, sh, page, home>>

\* the parent renders the component with other props
VizProps(p) ==
  /\ viz.pc = "on" /\ viz.shown # "none"
  /\ p # viz.props
  /\ viz' = [viz EXCEPT !.props = p, !.fresh = TRUE, !.dirty = TRUE]
  /\ UNCHANGED <<gw, sh, page, home>>

NextViz ==
  \/ VizCommit
  \/ \E p \in PropValues : VizProps(p)

\* React carries out a render that is scheduled
SpecViz == InitViz /\ [][NextViz]_vars /\ WF_vars(VizCommit)

(* ------------- PlotlyWorkflowVisualization: the chart's controls ------ *)

\* the workflows the chart shows: the default one, or one passed as props
ChartWorkflows ==
  {[given |-> TRUE, nodes |-> DefaultNodes, edges |-> DefaultEdges]}
  \cup PropWorkflows

\* the component with the chart on the screen and props that stay the same:
\* the state the handlers of the controls start from
InitChart ==
  /\ GwOff
  /\ sh = ShOff /\ page = PageOff /\ home = HomeOff
  /\ \E w \in ChartWorkflows :
       viz = [VizOff EXCEPT !.pc = "on", !.plotlyLoaded = TRUE,
                            !.shown = "chart",
                            !.props = IF w.nodes = DefaultNodes
                                      THEN [Absent EXCEPT !.given = TRUE]
                                      ELSE w,
                            !.nodes = w.nodes, !.edges = w.edges]

\* nodes.filter(n => n.status === 'pending'): the positions, in array order
PendingNodes(nodes) ==
  {i \in 1..Len(nodes) : nodes[i].status = "pending"}

\* the onClick of Auto Progress, as a function of nodes
AutoProgress(nodes) ==
  LET pendingNodes == PendingNodes(nodes) IN
  IF pendingNodes # {}
  THEN LET nextNode == CHOOSE i \in pendingNodes :
                         \A j \in pendingNodes : i <= j
       IN [nodes EXCEPT ![nextNode].status = "in_progress"]
  ELSE nodes

\* the Auto Progress button
VizAutoProgress ==
  /\ viz.pc = "on" /\ viz.shown = "chart"
  /\ viz' = [viz EXCEPT !.nodes = AutoProgress(viz.nodes)]
  /\ UNCHANGED <<gw, sh, page, home>>

\* handleNodeClick: a click on the marker of a node
VizNodeClick(i) ==
  /\ viz.pc = "on" /\ viz.shown = "chart"
  /\ i \in 1..Len(viz.nodes)
  /\ viz' = [viz EXCEPT !.selectedNode = viz.nodes[i].id]
  /\ UNCHANGED <<gw, sh, page, home>>

\* the Deselect button
VizDeselect ==
  /\ viz.pc = "on" /\ viz.shown = "chart"
  /\ viz.selectedNode # ""
  /\ viz' = [viz EXCEPT !.selectedNode = ""]
  /\ UNCHANGED <<gw, sh, page, home>>

\* handleApprovalAction; its buttons are rendered for a selected node of
\* type approval that is waiting for approval
VizApproval(approved) ==
  /\ viz.pc = "on" /\ viz.shown = "chart"
  /\ \E i \in 1..Len(viz.nodes) :
       /\ viz.nodes[i].id = viz.selectedNode
       /\ viz.nodes[i].type = "approval"
       /\ viz.nodes[i].status = "waiting_approval"
  /\ viz' = [viz EXCEPT !.nodes =
               [i \in 1..Len(viz.nodes) |->
                  IF viz.nodes[i].id = viz.selectedNode
                  THEN [viz.nodes[i] EXCEPT
                          !.status = IF approved THEN "completed" ELSE "failed"]
                  ELSE viz.nodes[i]]]
  /\ UNCHANGED <<gw, sh, page, home>>

NextChart ==
  \/ VizAutoProgress
  \/ \E i \in 1..Len(DefaultNodes) : VizNodeClick(i)
  \/ VizDeselect
  \/ \E approved \in BOOLEAN : VizApproval(approved)

SpecChart == InitChart /\ [][NextChart]_vars

(* ------------------------- properties: helpers ------------------------ *)

\* the application has handled the request (it has been answered or handed
\* to the proxy)
Handled(r) == r.st \in {"forwarded", "connected", "streaming", "done"}

\* the request was not rejected by the limiter and raised no error on its way
\* through the stack: the exceptions are the subject of C8, the limiter of C10
Routed(r) == Handled(r) /\ Visited(r, "logger") /\ r.raised = NoErr

\* the URL has the form /api/v1/<prefix>/<rest>
PrefixForm(url, prefix) ==
  /\ Len(url) >= 7
  /\ SubSeq(url, 1, 7) = <<"/", "api", "/", "v1", "/", prefix, "/">>

Prefixes == {"startup", "legal", "content", "business"}

\* the upstream the spec assigns to each prefix
UpstreamOfPrefix ==
  [ startup |-> "startupFormation", legal |-> "legalCompliance",
    content |-> "contentStrategy", business |-> "businessFormation" ]

(* -------------------------------- C1 ---------------------------------- *)

\* C1: a request to /api/v1/<prefix>/<rest>, for each of the four prefixes,
\* that reaches the router is forwarded to that prefix's own upstream of
\* SERVICES, and the path sent upstream is /api/v1/<rest> (the query string
\* kept).
C1_ForwardedToOwnUpstream ==
  \A s \in Slots : \A p \in Prefixes :
    LET r == reqs[s] IN
    (Routed(r) /\ PrefixForm(r.url, p)) =>
      /\ r.up.target = SERVICES[UpstreamOfPrefix[p]]
      /\ r.up.url = <<"/", "api", "/", "v1", "/">> \o Drop(r.url, 7)

\* a request to /api/v1/content/x?q=1 has gone out to content-strategy as
\* /api/v1/x?q=1
C1_Witness ==
  \E s \in Slots :
    /\ reqs[s].st = "forwarded"
    /\ reqs[s].url = U_content_q
    /\ reqs[s].up.target = "http://content-strategy:8000"
    /\ reqs[s].up.url = <<"/", "api", "/", "v1", "/", "x", "?", "q=1">>

(* -------------------------------- C2 ---------------------------------- *)

\* the query string of a URL ("?" and what follows it)
Query(url) == Drop(url, QueryAt(url, 1) - 1)

\* C2: for every proxied request the upstream receives the method, headers,
\* query string and body that the gateway received from the client, byte for
\* byte; stated for the requests the claim singles out, those that carry a
\* JSON or urlencoded body.
C2_UpstreamReceivesSameRequest ==
  \A s \in Slots :
    LET r == reqs[s] IN
    (Handled(r) /\ r.up # NoUp /\ r.body \in {"json", "form"}) =>
      /\ r.up.method = r.method
      /\ r.up.body = r.body
      /\ Query(r.up.url) = Query(r.url)
      /\ r.up.headers = Headers(r)

(* -------------------------------- C3 ---------------------------------- *)

\* C3: a proxied request with an expired, malformed or badly signed bearer
\* token is forwarded to the same upstream with the same rewritten path as
\* the same request sent with no Authorization header, gets the same
\* response when the upstream behaves the same, and is never answered by the
\* gateway with a rejection of the token.
C3_TokenDoesNotChangeRouting ==
  \A a \in Slots : \A b \in Slots :
    LET ra == reqs[a]
        rb == reqs[b]
    IN
    ( /\ Token(ra.authorization) \in BadTokens
      /\ rb.authorization = <<>>
      /\ ra.method = rb.method /\ ra.url = rb.url /\ ra.body = rb.body
      /\ Handled(ra) /\ Handled(rb)
      /\ Visited(ra, "logger") /\ Visited(rb, "logger") ) =>
      /\ ra.route # "none"
      /\ ra.route = rb.route
      /\ ra.up.target = rb.up.target
      /\ ra.up.url = rb.up.url
      /\ ra.user = rb.user
      /\ \A k \in 1..Len(ra.res) : ra.res[k].status \notin {401, 403}
      /\ (ra.trace = rb.trace => ra.res = rb.res)

\* the twins, one with an expired token and one with no header, have both
\* been answered after their upstream could not be reached
C3_Witness ==
  \E a \in Slots : \E b \in Slots :
    /\ Token(reqs[a].authorization) = "tok_expired"
    /\ reqs[b].authorization = <<>>
    /\ reqs[a].url = reqs[b].url
    /\ reqs[a].st = "done" /\ reqs[b].st = "done"
    /\ reqs[a].trace = reqs[b].trace
    /\ Visited(reqs[a], "onError")
    /\ reqs[a].res = reqs[b].res

(* ----------------------------- C4 and C5 ------------------------------ *)

\* the error code and the message the spec gives for each upstream
ErrorOfPrefix ==
  [ startup  |-> "STARTUP_FORMATION_ERROR",
    legal    |-> "LEGAL_COMPLIANCE_ERROR",
    content  |-> "CONTENT_STRATEGY_ERROR",
    business |-> "BUSINESS_FORMATION_ERROR" ]

MessageOfPrefix ==
  [ startup  |-> "Startup Formation Service is currently unavailable",
    legal    |-> "Legal Compliance Service is currently unavailable",
    content  |-> "Content Strategy Service is currently unavailable",
    business |-> "Business Formation Service is currently unavailable" ]

\* the request was forwarded, its upstream could not be reached (the
\* connection failed before any response) and the request has been answered
Unreachable(r) ==
  /\ r.st = "done"
  /\ Visited(r, "proxy") /\ Visited(r, "onError") /\ ~Visited(r, "proxyRes")

\* C4 as amended: when the upstream of a proxy route cannot be reached, the
\* gateway answers with status 500 and the body {error: '<SERVICE>_ERROR',
\* message: '<Service> is currently unavailable'} of that route.
C4_UnreachableAnswered500 ==
  \A s \in Slots : \A p \in Prefixes :
    LET r == reqs[s] IN
    (Unreachable(r) /\ PrefixForm(r.url, p)) =>
      r.res = << [ status |-> 500,
                   body |-> [ error |-> ErrorOfPrefix[p],
                              message |-> MessageOfPrefix[p] ] ] >>

\* C4 as claimed: the status of that answer is 502.
C4_UnreachableAnswered502 ==
  \A s \in Slots : \A p \in Prefixes :
    LET r == reqs[s] IN
    (Unreachable(r) /\ PrefixForm(r.url, p)) =>
      r.res = << [ status |-> 502,
                   body |-> [ error |-> ErrorOfPrefix[p],
                              message |-> MessageOfPrefix[p] ] ] >>

\* POST /api/v1/legal/audit with a JSON body, the legal-compliance upstream
\* refusing the connection, has been answered
C4_Witness ==
  \E s \in Slots :
    /\ Unreachable(reqs[s])
    /\ reqs[s].method = "POST" /\ reqs[s].body = "json"
    /\ reqs[s].url = U_legal_audit
    /\ reqs[s].log[Len(reqs[s].log)].error = "ECONNREFUSED"
    /\ reqs[s].res[1].body.error = "LEGAL_COMPLIANCE_ERROR"

\* C5: when an upstream is unreachable, the error response carries that
\* upstream's own error code and no other upstream's, its body holds nothing
\* of the network exception, and the exception's message is in the log.
C5_OwnCodeAndNoLeak ==
  \A s \in Slots : \A p \in Prefixes :
    LET r == reqs[s]
        b == r.res[Len(r.res)].body
    IN
    (Unreachable(r) /\ PrefixForm(r.url, p)) =>
      /\ b.error = ErrorOfPrefix[p]
      /\ \A q \in Prefixes \ {p} : b.error # ErrorOfPrefix[q]
      /\ DOMAIN b = {"error", "message"}
      /\ b.error \notin ConnectErrors /\ b.message \notin ConnectErrors
      /\ \E k \in 1..Len(r.log) :
           r.log[k].level = "error" /\ r.log[k].error \in ConnectErrors

\* each of the four upstreams' error responses has been produced: here the
\* business one, after a DNS failure
C5_Witness ==
  \E s \in Slots :
    /\ Unreachable(reqs[s])
    /\ PrefixForm(reqs[s].url, "business")
    /\ reqs[s].res[1].body.error = "BUSINESS_FORMATION_ERROR"
    /\ \E k \in 1..Len(reqs[s].log) : reqs[s].log[k].error = "ENOTFOUND"

(* ----------------------------- C6 and C7 ------------------------------ *)

\* the path is under /api/
UnderApi(url) == StartsWith(Pathname(url), <<"/", "api", "/">>)

\* the path is a registered proxy prefix or continues one at a "/"
UnderProxyPrefix(url) ==
  \E p \in Prefixes :
    \/ Pathname(url) = <<"/", "api", "/", "v1", "/", p>>
    \/ PrefixForm(url, p)

Unregistered(r) ==
  /\ ~UnderApi(r.url)
  /\ ~(r.method = "GET" /\ Pathname(r.url) = <<"/", "health">>)

GenericNotFound(r) ==
  << [ status |-> 404,
       body |-> [ error |-> "NOT_FOUND",
                  message |-> <<"Route ", r.url, " not found">> ] ] >>

C8_ErrorsAnswered500 ==
  \A s \in Slots :
    LET r == reqs[s] IN
    (r.raised # NoErr /\ (r.st = "done" \/ proc = "crashed")) =>
      /\ r.res = << [ status |-> 500,
                      body |-> [ error |-> "INTERNAL_ERROR",
                                 message |-> "An unexpected error occurred" ] ] >>
      /\ \E k \in 1..Len(r.log) :
           /\ r.log[k].level = "error"
           /\ r.log[k].msg = "Unhandled error"
           /\ r.log[k].error = r.raised.msg

\* C9: every request results in exactly one response, never a second write
\* after a response was sent, and no error escapes the request handler.
C9_ExactlyOneResponse ==
  /\ proc # "crashed"
  /\ \A s \in Slots :
       /\ reqs[s].uncaught = NoErr
       /\ Len(reqs[s].res) <= 1
       /\ (reqs[s].st = "done" => Len(reqs[s].res) = 1)

(* -------------------------------- C10 --------------------------------- *)

\* the limiter's 429 answer
TooMany ==
  << [ status |-> 429,
       body |-> [error |-> "Too many requests from this IP, please try again later."] ] >>

\* C10: once an IP has exceeded the budget in the current window, every
\* further request of that IP handled before the window resets is answered
\* 429 with the static message; a request of an IP whose count is below the
\* budget, as it is after the reset, is not answered 429.
C10_EveryFurtherRequest429 ==
  [][ \A s \in Slots :
        (reqs[s].st = "received" /\ reqs'[s].st # "received") =>
          /\ (hits[reqs[s].ip] > max => reqs'[s].res = TooMany)
          /\ (hits[reqs[s].ip] < max => reqs'[s].res # TooMany)
    ]_vars

\* C10 for the requests the limiter sees, those whose body the parsers
\* accepted: with the count at the budget or above the request is answered
\* 429 and goes no further, with the count below it the request passes the
\* limiter; and a count only goes down by the reset of the window.
C10_LimitedUntilReset ==
  [][ /\ \A s \in Slots :
           ( /\ reqs[s].st = "received"
             /\ reqs'[s].st # "received"
             /\ reqs'[s].raised = NoErr ) =>
             /\ (hits[reqs[s].ip] >= max =>
                   /\ reqs'[s].st = "done"
                   /\ reqs'[s].res = TooMany
                   /\ reqs'[s].up = NoUp)
             /\ (hits[reqs[s].ip] < max =>
                   /\ Visited(reqs'[s], "logger")
                   /\ reqs'[s].res # TooMany)
      /\ \A ip \in IPs : hits'[ip] < hits[ip] => hits'[ip] = 0
    ]_vars

\* an IP already over its budget has sent a further request, answered 429
C10_LimitedWitness ==
  \E s \in Slots :
    /\ reqs[s].st = "done"
    /\ reqs[s].totalHits = max + 2
    /\ hits[reqs[s].ip] = max + 2
    /\ reqs[s].res = TooMany

(* -------------------------------- C11 --------------------------------- *)

\* the step in which the limiter sees the request of connection s
LimiterStep(s) == reqs[s].st = "received" /\ Visited(reqs'[s], "limiter")

\* C11: with requests of one IP handled concurrently, every request the
\* limiter sees adds exactly one to the counter of its IP and leaves the
\* counter of every other IP alone, and the requests of one IP that pass the
\* limiter within a window never exceed the budget.
C11_AtomicIncrement ==
  /\ [](\A ip \in IPs : passed[ip] <= max /\ passed[ip] <= hits[ip])
  /\ [][ \A s \in Slots :
           LimiterStep(s) =>
             /\ hits'[reqs[s].ip] = hits[reqs[s].ip] + 1
             /\ reqs'[s].totalHits = hits'[reqs[s].ip]
             /\ \A o \in IPs \ {reqs[s].ip} :
                  hits'[o] = hits[o] /\ passed'[o] = passed[o]
       ]_vars

\* while a request of the first client, the last within its budget, is with
\* its upstream, the next request of that client is answered 429 and a
\* request of the second client has passed on its own counter
C11_Witness ==
  \E a \in Slots : \E b \in Slots :
    /\ reqs[a].st = "connected" /\ reqs[a].ip = "ip1"
    /\ reqs[a].totalHits = max
    /\ reqs[b].st = "done" /\ reqs[b].ip = "ip1"
    /\ reqs[b].totalHits = max + 1 /\ reqs[b].res = TooMany
    /\ passed["ip1"] = max /\ hits["ip1"] = max + 1
    /\ hits["ip2"] = 1 /\ passed["ip2"] = 1

(* -------------------------------- C12 --------------------------------- *)

\* the times the request was sent to an upstream
Attempts(r) == Cardinality({k \in 1..Len(r.trace) : r.trace[k] = "proxy"})

C13_HungUpstreamExpires ==
  (reqs[1].st = "connected") ~> (reqs[1].st \in {"streaming", "done"})

(* -------------------------------- C14 --------------------------------- *)

\* the info-level 'Incoming request' record of the request
IncomingLogged(r) ==
  \E k \in 1..Len(r.log) :
    /\ r.log[k].level = "info"
    /\ r.log[k].msg = "Incoming request"
    /\ r.log[k].method = r.method
    /\ r.log[k].url = r.url
    /\ r.log[k].ip = r.ip

\* C14: every request, whatever its outcome, those answered 429 by the
\* limiter and those a body parser rejected included, has its 'Incoming
\* request' record in the log by the time it has a response or is with its
\* upstream.
C14_EveryRequestLogged ==
  \A s \in Slots :
    (Handled(reqs[s]) \/ Len(reqs[s].res) > 0) => IncomingLogged(reqs[s])

(* -------------------------------- C15 --------------------------------- *)

\* the Authorization header carries, as its second space-separated part, a
\* token that verifies against the secret
CarriesValidToken(r) ==
  Len(r.authorization) >= 2 /\ r.authorization[2] = "tok_valid"

\* C15: on a request that authenticateToken has seen, req.user is attached
\* if and only if the Authorization header carries a token that jwt.verify
\* accepts; in every other case the request goes on to the proxy with no
\* identity. A request authenticateToken has not seen has no identity.
C15_IdentityIffVerified ==
  \A s \in Slots :
    LET r == reqs[s] IN
    /\ Visited(r, "authenticateToken") =>
         /\ (r.user # "none") = CarriesValidToken(r)
         /\ CarriesValidToken(r) => r.user = "claims"
         /\ Visited(r, "proxy")
    /\ ~Visited(r, "authenticateToken") => r.user = "none"

\* a request with a valid token has gone to its upstream with the identity
\* attached
C15_Witness ==
  \E s \in Slots :
    /\ reqs[s].st = "forwarded"
    /\ reqs[s].authorization = <<"Bearer", "tok_valid">>
    /\ reqs[s].user = "claims"

\* requests with an expired token and with a header of one part have gone
\* to their upstream with no identity
C15_WitnessRejected ==
  \E s \in Slots :
    /\ reqs[s].st = "forwarded"
    /\ reqs[s].authorization \in {<<"Bearer", "tok_expired">>, <<"Bearer">>}
    /\ reqs[s].user = "none"

(* -------------------------------- C16 --------------------------------- *)

\* the step in which the /health handler answers the request of connection s
HealthStep(s) == reqs[s].st = "received" /\ Visited(reqs'[s], "health")

\* C16: a GET /health that reaches its handler is answered 200 with status
\* 'healthy' and service 'api-gateway' and an uptime that is not below the
\* uptime of any /health response given before it; the handler changes no
\* state of the gateway (the count of the caller's IP is the limiter's), and
\* the uptime never goes down.
C16_HealthIdempotent ==
  [][ /\ uptime' >= uptime
      /\ \A s \in Slots :
           HealthStep(s) =>
             /\ reqs'[s].st = "done"
             /\ Len(reqs'[s].res) = 1
             /\ reqs'[s].res[1].status = 200
             /\ reqs'[s].res[1].body.status = "healthy"
             /\ reqs'[s].res[1].body.service = "api-gateway"
             /\ \A t \in Slots \ {s} :
                  Visited(reqs[t], "health") =>
                    /\ reqs[t].res[1].body.status = "healthy"
                    /\ reqs[t].res[1].body.uptime <= reqs'[s].res[1].body.uptime
             /\ \A t \in Slots \ {s} : reqs'[t] = reqs[t]
             /\ \A o \in IPs \ {reqs[s].ip} : hits'[o] = hits[o]
             /\ UNCHANGED <<proc, NODE_ENV, publicIndex, uptime, signal, arrivals>>
    ]_vars

\* two GET /health from the same client answered one after the other, the
\* clock having advanced in between
C16_Witness ==
  \E a \in Slots : \E b \in Slots :
    /\ Visited(reqs[a], "health") /\ Visited(reqs[b], "health")
    /\ reqs[a].ip = reqs[b].ip
    /\ reqs[a].totalHits + 1 = reqs[b].totalHits
    /\ reqs[a].res[1].body.status = "healthy"
    /\ reqs[b].res[1].body.status = "healthy"
    /\ reqs[a].res[1].body.uptime = 0
    /\ reqs[b].res[1].body.uptime = 1

(* -------------------------------- C17 --------------------------------- *)

\* the four registered services with their configured URLs, all 'healthy'
AllHealthy ==
  << [name |-> "startupFormation", url |-> "http://startup-formation:8000",
      status |-> "healthy"],
     [name |-> "legalCompliance", url |-> "http://legal-compliance:8000",
      status |-> "healthy"],
     [name |-> "contentStrategy", url |-> "http://content-strategy:8000",
      status |-> "healthy"],
     [name |-> "businessFormation", url |-> "http://business-formation:8000",
      status |-> "healthy"] >>

\* C17: a GET /api/services that reaches routing is answered 200 with one
\* entry per registered service, its configured URL and status 'healthy',
\* whatever has become of the requests sent to the upstreams, and is itself
\* never sent to an upstream.
C17_ServicesAlwaysHealthy ==
  \A s \in Slots :
    LET r == reqs[s] IN
    (Routed(r) /\ r.method = "GET" /\ Pathname(r.url) = <<"/", "api", "/", "services">>) =>
      /\ r.st = "done"
      /\ r.res = << [status |-> 200, body |-> [services |-> AllHealthy]] >>
      /\ r.up = NoUp /\ r.route = "none"
      /\ \A k \in 1..Len(r.trace) : r.trace[k] \notin {"proxy", "onError"}

\* GET /api/services answered with legalCompliance 'healthy' while a request
\* to the legal route has just been answered 500: its upstream is down
C17_Witness ==
  \E a \in Slots : \E b \in Slots :
    /\ Unreachable(reqs[a]) /\ reqs[a].route = "legal"
    /\ reqs[a].res[1].status = 500
    /\ reqs[b].st = "done" /\ Visited(reqs[b], "services")
    /\ reqs[b].res[1].body.services[2].name = "legalCompliance"
    /\ reqs[b].res[1].body.services[2].status = "healthy"
    /\ Len(reqs[b].res[1].body.services) = 4

(* -------------------------------- C18 --------------------------------- *)

\* the proxy routes whose mount matches the URL
MatchingRoutes(url) ==
  {n \in RouteNames : MountMatch(RouteOf(n).mount, url)}

\* the route that answers the URL when the routes are registered in the
\* order p, a permutation of the registration order: the first that matches
ChosenIn(p, url) ==
  LET M == {i \in 1..Len(ProxyRoutes) : MountMatch(ProxyRoutes[p[i]].mount, url)}
  IN IF M = {} THEN "none"
     ELSE ProxyRoutes[p[CHOOSE i \in M : \A j \in M : i <= j]].name

\* paths under /api/v1/: each prefix and near misses of it, followed by
\* nothing, by further segments (another prefix among them), by characters
\* that continue the segment, or by a query string
TestPaths ==
  { <<"/", "api", "/", "v1", "/", a>> \o rest :
      a \in Prefixes \cup {"startupx", "x"},
      rest \in { <<>>, <<"/">>, <<"/", "x">>, <<"/", "legal">>,
                 <<"/", "business", "/", "x">>, <<"x">>, <<"?", "q=1">>,
                 <<"/", "x", "?", "p=/api/v1/content">> } }

\* the mounts are pairwise distinct, none lies under another, and no path
\* matches two of them, whatever the order of registration
PrefixesDisjoint ==
  /\ \A i \in 1..Len(ProxyRoutes) : \A j \in 1..Len(ProxyRoutes) :
       i # j => /\ ProxyRoutes[i].mount # ProxyRoutes[j].mount
                /\ ~MountMatch(ProxyRoutes[i].mount, ProxyRoutes[j].mount)
  /\ \A u \in TestPaths \cup Urls :
       /\ Cardinality(MatchingRoutes(u)) <= 1
       /\ \A p \in Permutations(1..Len(ProxyRoutes)) :
            ChosenIn(p, u) = ChosenIn([i \in 1..Len(ProxyRoutes) |-> i], u)

\* C18: the four proxy prefixes are pairwise distinct and do not overlap: no
\* request path matches more than one proxy route, the route chosen is the
\* same in every order of registration, and a request that reaches routing
\* on a path that matches a route is handled by that route.
C18_PrefixesDoNotOverlap ==
  /\ PrefixesDisjoint
  /\ \A s \in Slots :
       LET r == reqs[s] IN
       (Routed(r) /\ MatchingRoutes(r.url) # {}) => MatchingRoutes(r.url) = {r.route}

\* a request to /api/v1/startup/legal, a path that names two prefixes, has
\* gone to the startup upstream
C18_Witness ==
  \E s \in Slots :
    /\ reqs[s].st = "forwarded"
    /\ reqs[s].url = U_startup_legal
    /\ MatchingRoutes(reqs[s].url) = {"startup"}
    /\ reqs[s].up.target = "http://startup-formation:8000"

(* -------------------------------- C19 --------------------------------- *)

\* the handlers of the routes: health, service discovery, the proxy routes,
\* the fallbacks and the development handlers
RouteStages ==
  {"health", "services", "proxy", "apiFallback", "static", "spa", "notFound"}

C20_NothingAfterSignal ==
  /\ [](signal # "none" => proc = "exited")
  /\ [][ signal # "none" =>
           /\ reqs' = reqs
           /\ arrivals' = arrivals
           /\ hits' = hits
           /\ proc' = proc
       ]_vars

\* SIGTERM has been delivered while a request was received and not yet
\* handled and the clients had more to send; the process has exited
C20_Witness ==
  /\ signal = "SIGTERM" /\ proc = "exited"
  /\ arrivals < MaxArrivals
  /\ \E s \in Slots : reqs[s].st = "received"

(* -------------------------------- C21 --------------------------------- *)

\* the state of the request on a connection: none (no request), received,
\* forwarded (handed to the proxy, the exchange with the target going on),
\* success (the target's response relayed to its end), upstream-failure
\* (onError has run), answered (the gateway answered it itself: unmatched,
\* rejected, or an error response)
RequestState(r) ==
  CASE r.st = "idle"     -> "none"
    [] r.st = "received" -> "received"
    [] r.st \in {"forwarded", "connected", "streaming"} ->
         IF Visited(r, "onError") THEN "upstream-failure" ELSE "forwarded"
    [] r.st = "done" ->
         IF Visited(r, "onError") THEN "upstream-failure"
         ELSE IF Visited(r, "proxy") THEN "success"
         ELSE "answered"

TerminalStates == {"success", "upstream-failure", "answered"}

\* the order of the states of one request
StateOrder ==
  { <<"none", "received">>, <<"received", "forwarded">>,
    <<"received", "answered">>, <<"forwarded", "success">>,
    <<"forwarded", "upstream-failure">> }

\* C21: a request goes through its states in the order received, then
\* forwarded or answered, then (from forwarded only) success or
\* upstream-failure. It becomes forwarded only in the step that matched it
\* to a registry entry, and then to that entry's upstream; a request whose
\* path matches no entry is never sent to an upstream; a terminal state is
\* never left (the connection may only be freed for the next request).
C21_StateOrder ==
  [][ \A s \in Slots :
        LET r == reqs[s]
            q == reqs'[s]
            a == RequestState(r)
            b == RequestState(q)
        IN /\ a # b /\ a \notin TerminalStates => <<a, b>> \in StateOrder
           /\ a \in TerminalStates => q = r \/ q = Idle
           /\ b = "forwarded" /\ a # "forwarded" =>
                /\ a = "received"
                /\ q.route \in RouteNames
                /\ MountMatch(RouteOf(q.route).mount, q.url)
                /\ q.up.target = RouteOf(q.route).target
           /\ ~IsProxied(q.url) =>
                q.up = NoUp /\ ~Visited(q, "proxy") /\ b # "forwarded"
    ]_vars

\* a matched request has gone through forwarded to success and its response
\* is complete
C21_Witness ==
  \E s \in Slots :
    /\ RequestState(reqs[s]) = "success"
    /\ reqs[s].route \in RouteNames
    /\ Visited(reqs[s], "end")

(* -------------------------------- C23 --------------------------------- *)

\* the path starts with the characters of a registered prefix and neither
\* equals the prefix nor continues it at a "/"
SharesCharactersOnly(url) ==
  /\ \E p \in Prefixes :
       StartsWith(Pathname(url), <<"/", "api", "/", "v1", "/", p>>)
  /\ ~UnderProxyPrefix(url)

\* C23: a request that reaches routing is sent to an upstream only if its
\* path equals a registered prefix or continues it at a "/"; a path that
\* only starts with the characters of a prefix (/api/v1/startupx,
\* /api/v1/legalese/1) is sent to no upstream and is answered 404 with
\* error API_ENDPOINT_NOT_FOUND.
C23_WholeSegments ==
  \A s \in Slots :
    LET r == reqs[s] IN
    Routed(r) =>
      /\ (Visited(r, "proxy") \/ r.up # NoUp) => UnderProxyPrefix(r.url)
      /\ SharesCharactersOnly(r.url) =>
           /\ r.up = NoUp /\ r.route = "none" /\ r.st = "done"
           /\ Len(r.res) = 1
           /\ r.res[1].status = 404
           /\ r.res[1].body.error = "API_ENDPOINT_NOT_FOUND"

\* /api/v1/legalese/1 has reached routing and has been answered by the
\* fallback
C23_Witness ==
  \E s \in Slots :
    /\ Routed(reqs[s]) /\ reqs[s].url = U_legalese_1
    /\ SharesCharactersOnly(reqs[s].url)
    /\ Visited(reqs[s], "apiFallback")
    /\ reqs[s].res[1].status = 404

(* -------------------------------- C24 --------------------------------- *)

\* C24: the budget of an IP is exactly max requests per window: a request
\* handled when fewer than max requests of its IP have been counted in the
\* window is not answered 429, and a request handled when max or more have
\* been counted (the one after the max-th and every later one) is answered
\* 429 with the static message.
C24_ExactBudget ==
  [][ \A s \in Slots :
        (reqs[s].st = "received" /\ reqs'[s].st # "received") =>
          /\ (hits[reqs[s].ip] < max => reqs'[s].res # TooMany)
          /\ (hits[reqs[s].ip] >= max =>
                reqs'[s].res = TooMany /\ reqs'[s].up = NoUp)
    ]_vars

\* C24 for the requests the limiter sees: the request that brings the count
\* to max or less passes, the one that brings it above max is answered 429
C24_ThresholdAtLimiter ==
  \A s \in Slots :
    LET r == reqs[s] IN
    (Handled(r) /\ Visited(r, "limiter")) =>
      /\ r.totalHits >= 1
      /\ (r.totalHits <= max => Visited(r, "logger") /\ r.res # TooMany)
      /\ (r.totalHits > max => r.res = TooMany /\ ~Visited(r, "logger"))

(* -------------------------------- C25 --------------------------------- *)

\* the limiter has rejected the request
RejectedByLimiter(r) ==
  Handled(r) /\ Visited(r, "limiter") /\ LimitReached(r.totalHits)

\* the stages behind the limiter
StagesBehindLimiter ==
  { "logger", "authenticateToken", "proxy", "health", "services",
    "apiFallback", "static", "spa", "notFound", "errorHandler",
    "finalhandler", "proxyRes", "onError" }

\* C25: a request the limiter rejects stops there: it has gone through the
\* body parsers and the limiter and through no later stage (neither
\* authenticateToken nor a proxy nor the health, service-discovery or
\* fallback handler), nothing was written to an upstream, and its only
\* response is the 429.
C25_StopsAtLimiter ==
  \A s \in Slots :
    LET r == reqs[s] IN
    RejectedByLimiter(r) =>
      /\ r.trace = <<"bodyParsers", "limiter">>
      /\ \A st \in StagesBehindLimiter : ~Visited(r, st)
      /\ r.up = NoUp /\ r.route = "none" /\ r.user = "none"
      /\ r.st = "done" /\ r.res = TooMany

\* a request to a proxied path, carrying a valid token, has been rejected by
\* the limiter
C25_Witness ==
  \E s \in Slots :
    /\ RejectedByLimiter(reqs[s])
    /\ reqs[s].url = U_legal_audit
    /\ reqs[s].authorization = <<"Bearer", "tok_valid">>
    /\ reqs[s].res = TooMany

(* -------------------------------- C26 --------------------------------- *)

\* how often the stage occurs in the request's trace
Times(r, stage) ==
  Cardinality({k \in 1..Len(r.trace) : r.trace[k] = stage})

\* a received request with the Authorization header a
WithAuthorization(a) ==
  [Idle EXCEPT !.st = "received", !.url = U_legal_audit, !.authorization = a]

\* C26: whatever the Authorization header (absent, one word, a scheme and an
\* empty token, a valid token, an invalid token), authenticateToken calls
\* next() once and with no error, and writes no response: the handler behind
\* it, the proxy, runs exactly once in the step that handles the request, no
\* error is pending and no response has been written by then.
C26_AlwaysNextOnce ==
  /\ [](\A a \in AuthHeaders :
          LET o == authenticateToken(WithAuthorization(a)) IN
          /\ o.k = "next" /\ o.err = NoErr
          /\ o.r.res = <<>> /\ ~o.r.headersSent /\ o.r.raised = NoErr
          /\ o.r.st = "received")
  /\ [][ \A s \in Slots :
           ( /\ reqs[s].st = "received"
             /\ Visited(reqs'[s], "authenticateToken") ) =>
             /\ Times(reqs'[s], "authenticateToken") = 1
             /\ Times(reqs'[s], "proxy") = 1
             /\ reqs'[s].trace[Len(reqs'[s].trace)] = "proxy"
             /\ reqs'[s].trace[Len(reqs'[s].trace) - 1] = "authenticateToken"
             /\ reqs'[s].raised = NoErr
             /\ reqs'[s].res = <<>> /\ ~reqs'[s].headersSent
             /\ reqs'[s].st = "forwarded"
       ]_vars

\* a request whose Authorization header is a scheme followed by an empty
\* token has gone through authenticateToken to the proxy
C26_Witness ==
  \E s \in Slots :
    /\ reqs[s].authorization = <<"Bearer", "">>
    /\ reqs[s].st = "forwarded"
    /\ Times(reqs[s], "authenticateToken") = 1
    /\ Times(reqs[s], "proxy") = 1

(* -------------------------------- C22 --------------------------------- *)

\* the run was given a list and a limit that is a number
ValidRun == sh.argv.argc >= 1 /\ IsNumber(sh.MAX_SIZE_MB)

\* C22: a run given a list and a numeric limit exits with 1 if and only if
\* a file of the list that exists is larger than the limit of MAX_SIZE_MB
\* megabytes, and with 0 otherwise; the names that are no file are the ones
\* reported as not found.
C22_ExitOneIffTooLarge ==
  (sh.pc = "exited" /\ ValidRun) =>
    /\ sh.status \in {0, 1}
    /\ sh.status = 1 <=>
         \E k \in 1..Len(sh.FILE_LIST) :
           /\ sh.FILE_LIST[k].exists
           /\ sh.FILE_LIST[k].bytes > Numeral[sh.MAX_SIZE_MB] * MiB
    /\ \A k \in 1..Len(sh.FILE_LIST) :
         ~sh.FILE_LIST[k].exists <=>
           \E j \in 1..Len(sh.notFound) : sh.notFound[j] = k

\* what the run does decide: it exits with 1 if and only if a file that
\* exists has at least one whole megabyte more than the limit
C22_ExitOneFromNextMegabyte ==
  (sh.pc = "exited" /\ ValidRun) =>
    /\ sh.status = 1 <=>
         \E k \in 1..Len(sh.FILE_LIST) :
           /\ sh.FILE_LIST[k].exists
           /\ sh.FILE_LIST[k].bytes >= (Numeral[sh.MAX_SIZE_MB] + 1) * MiB
    /\ \A k \in 1..Len(sh.FILE_LIST) :
         ~sh.FILE_LIST[k].exists <=>
           \E j \in 1..Len(sh.notFound) : sh.notFound[j] = k

(* -------------------------------- C27 --------------------------------- *)

\* one of the three required fields is empty
RequiredFieldEmpty(f) ==
  \E k \in {"companyName", "founderName", "founderEmail"} : f[k] = ""

\* C27: a call of createWorkflow with a required field empty sends no POST
\* and leaves formData, isLoading, the workflow list and the active tab as
\* they were, and a POST is only ever sent with the three fields filled;
\* createWorkflow resets the form and switches to the monitor tab after an
\* ok response and only then; after a non-ok response or a network error
\* the form data is as it was and isLoading is false.
C27_CreateWorkflow ==
  [][ /\ (page'.event = "clickCreate" /\ RequiredFieldEmpty(page.formData)) =>
           /\ page'.post = NoPost /\ page.post = NoPost
           /\ page'.gets = page.gets
           /\ page'.formData = page.formData
           /\ page'.isLoading = page.isLoading
           /\ page'.workflows = page.workflows
           /\ page'.activeTab = page.activeTab
      /\ (page.post = NoPost /\ page'.post # NoPost) =>
           /\ ~RequiredFieldEmpty(page.formData)
           /\ page'.post.company_name = page.formData.companyName
           /\ page'.post.founder_name = page.formData.founderName
           /\ page'.post.founder_email = page.formData.founderEmail
      /\ ( \/ /\ page'.formData = FormDefaults /\ page.formData # FormDefaults
              /\ page'.event # "edit"
           \/ /\ page'.activeTab = "monitor" /\ page.activeTab # "monitor"
              /\ page'.event # "selectTab" ) =>
           page.post # NoPost /\ page'.event = "postOk"
      /\ (page.post # NoPost /\ page'.event = "postOk") =>
           /\ page'.formData = FormDefaults
           /\ page'.activeTab = "monitor"
           /\ ~page'.isLoading
      /\ ( /\ page.post # NoPost
           /\ page'.event \in {"postNotOk", "postNetworkError"} ) =>
           /\ page'.formData = page.formData
           /\ page'.activeTab = page.activeTab
           /\ ~page'.isLoading
           /\ page'.post = NoPost
    ]_vars

\* a non-ok response has arrived for a POST sent from a filled form: the
\* data entered is still in the form and isLoading is false
C27_Witness ==
  /\ page.event = "postNotOk"
  /\ ~RequiredFieldEmpty(page.formData)
  /\ page.formData.entityType = "corporation"
  /\ ~page.isLoading /\ page.post = NoPost
  /\ page.activeTab = "create"

(* -------------------------------- C28 --------------------------------- *)

\* C28: while a service is selected, a response shown once isLoading is
\* false is the response of a request issued for that service, and
\* isLoading is true as long as the request issued by the click that
\* selected it (the last request) is in flight.
C28_ResponseOfSelected ==
  (home.pc = "on" /\ home.selectedService # 0) =>
    LET last == Len(home.requests) IN
    /\ (~home.isLoading /\ home.aiResponse # NoResponse) =>
         home.requests[home.aiResponse.of].service = home.selectedService
    /\ home.requests[last].state = "pending" => home.isLoading

(* -------------------------------- C29 --------------------------------- *)

\* C29: the component eventually leaves its loading placeholder:
\* plotlyLoaded becomes true and the chart is on the screen.
C29_EventuallyLoaded == <>(viz.plotlyLoaded /\ viz.shown = "chart")

\* what holds instead: plotlyLoaded stays false and the chart is never on
\* the screen
C29_NeverLoaded == viz.pc = "on" => ~viz.plotlyLoaded /\ viz.shown # "chart"

(* -------------------------------- C30 --------------------------------- *)

\* every node with an edge into the i-th node is completed
PrerequisitesCompleted(nodes, edges, i) ==
  \A e \in 1..Len(edges) :
    edges[e].target = nodes[i].id =>
      \A j \in 1..Len(nodes) :
        nodes[j].id = edges[e].source => nodes[j].status = "completed"

C30_FirstPendingOnly ==
  [][ /\ viz'.edges = viz.edges
      /\ Len(viz'.nodes) = Len(viz.nodes)
      /\ \A i \in 1..Len(viz.nodes) :
           /\ viz.nodes[i].status = "completed" =>
                viz'.nodes[i].status = "completed"
           /\ ( /\ viz.nodes[i].status = "pending"
                /\ viz'.nodes[i] # viz.nodes[i] ) =>
                /\ viz'.nodes[i].status = "in_progress"
                /\ \A j \in 1..(i - 1) : viz.nodes[j].status # "pending"
      /\ Cardinality({i \in 1..Len(viz.nodes) :
                        viz'.nodes[i] # viz.nodes[i]}) <= 1
    ]_vars

====
